---------------------------- MODULE Spec2Model ----------------------------
(***************************************************************************)
(* GopherDB storage engine: the pager (engine/pager.go) and the write-ahead *)
(* log (engine/log.go), modelled as one state machine over the two files   *)
(* they own.                                                                *)
(*                                                                          *)
(* Byte strings ([]byte, [N]byte, file contents) are kept run-length        *)
(* encoded: a sequence of runs [b |-> byte, n |-> count], n >= 1, adjacent  *)
(* runs holding different bytes.  Lengths and offsets are the real ones     *)
(* (PageSize = 4096, ENTRY_SIZE = 8216).                                    *)
(***************************************************************************)
EXTENDS Integers, Sequences, FiniteSets, TLC

----------------------------------------------------------------------------
(* Program constants                                                        *)

PageSize == 4096
HeaderSize == 64
FooterSize == 32
MaxBodySize == PageSize - HeaderSize - FooterSize
ENTRY_SIZE == 8216

PageTypeData == 0
PageTypeIndex == 1
PageTypeMetadata == 2
PageTypeOverflow == 3
PageTypes == {PageTypeData, PageTypeIndex, PageTypeMetadata, PageTypeOverflow}

EntryTypeWrite == 0
EntryTypeCommit == 1

\* A nil pointer (of any record type), a nil error.
Nil == [nil |-> TRUE]
NoErr == "nil"

----------------------------------------------------------------------------
(* Byte strings                                                             *)

\* make([]byte, n) filled with b; b = 0 is Go's zero value.
Fill(b, n) == IF n <= 0 THEN << >> ELSE << [b |-> b, n |-> n] >>

\* len(s)
RECURSIVE BLen(_)
BLen(s) == IF s = << >> THEN 0 ELSE Head(s).n + BLen(Tail(s))

\* append(s, t...)
BCat(s, t) ==
    IF s = << >> THEN t
    ELSE IF t = << >> THEN s
    ELSE IF s[Len(s)].b = t[1].b
         THEN SubSeq(s, 1, Len(s) - 1)
                \o << [b |-> t[1].b, n |-> s[Len(s)].n + t[1].n] >>
                \o Tail(t)
         ELSE s \o t

\* s[:k]
RECURSIVE BTake(_, _)
BTake(s, k) ==
    IF k <= 0 \/ s = << >> THEN << >>
    ELSE IF Head(s).n >= k THEN << [b |-> Head(s).b, n |-> k] >>
    ELSE << Head(s) >> \o BTake(Tail(s), k - Head(s).n)

\* s[k:]
RECURSIVE BDrop(_, _)
BDrop(s, k) ==
    IF k <= 0 \/ s = << >> THEN s
    ELSE IF Head(s).n > k
         THEN << [b |-> Head(s).b, n |-> Head(s).n - k] >> \o Tail(s)
    ELSE BDrop(Tail(s), k - Head(s).n)

\* s[from:to]
BSlice(s, from, to) == BTake(BDrop(s, from), to - from)

\* copy(buf, s) into a zeroed buffer of n bytes: s cut to n bytes, the rest
\* of the buffer keeps its zeros.
IntoBuffer(s, n) == BCat(BTake(s, n), Fill(0, n - BLen(BTake(s, n))))

\* The bytes of a file after a write of d at offset pos (a regular file: a
\* write past the end leaves a hole of zeros).
WriteAtPos(content, pos, d) ==
    BCat(BCat(IntoBuffer(content, pos), d), BDrop(content, pos + BLen(d)))

Min(a, b) == IF a <= b THEN a ELSE b

\* A path on disk: no file, or a regular file and its bytes.
NoFile == [exists |-> FALSE, bytes |-> << >>]
FileOf(bs) == [exists |-> TRUE, bytes |-> bs]

\* A byte string given byte by byte.
RECURSIVE FromBytes(_)
FromBytes(q) ==
    IF q = << >> THEN << >> ELSE BCat(Fill(Head(q), 1), FromBytes(Tail(q)))

----------------------------------------------------------------------------
(* Bounds of the model                                                      *)

\* Page slots a data file found on disk may hold.
MaxFilePages == 3
\* Largest MaxCacheSize a pager is opened with.
MaxCache == 2
\* Largest page id passed to ReadPage, FlushPage, DeallocatePage.
MaxPageID == 3
\* Append calls per WAL file.
MaxAppends == 2
\* Process deaths (kill or panic) followed by a restart.
MaxCrashes == 1
\* Iterations of Replay's loop that are followed.
MaxReplayLoop == 4
\* AllocatePage calls that are counted.
MaxAllocs == 3
\* Bytes of the record a crash cut short at the end of a WAL file.
TailLen == 100

\* The goroutines that call the pager concurrently, and the calls each
\* makes.
MaxThreads == 2
MaxThreadCalls == 2

----------------------------------------------------------------------------
(* WAL entries and their two encodings                                      *)

\* A value of 256 or more read from a little-endian field: outside the
\* range of the ids and offsets the model's inputs use.
Wide == -1

\* binary.LittleEndian: an unsigned integer n < 256 in w bytes.
LE(n, w) == BCat(Fill(n, 1), Fill(0, w - 1))

\* binary.Read(buf, binary.LittleEndian, &x) of an unsigned field.
FromLE(bs) ==
    IF bs = << >> THEN 0
    ELSE IF BDrop(bs, 1) = Fill(0, BLen(bs) - 1) THEN bs[1].b
    ELSE Wide

\* WriteAheadLogEntry{} (the zero value).
ZeroEntry ==
    [TxnID |-> 0, Type |-> EntryTypeWrite, PageID |-> 0, Offset |-> 0,
     OldData |-> Fill(0, PageSize), NewData |-> Fill(0, PageSize)]

\* encoding/gob: an unsigned integer. Below 128 one byte; otherwise the
\* negated byte count, then the bytes, high byte first.
GobUint(n) ==
    IF n < 128 THEN FromBytes(<< n >>)
    ELSE IF n < 256 THEN FromBytes(<< 255, n >>)
    ELSE FromBytes(<< 254, n \div 256, n % 256 >>)

\* encoding/gob: a non-negative signed integer i is sent as the unsigned 2i.
GobInt(i) == GobUint(2 * i)

\* encoding/gob: the elements of a [N]byte array, each as an unsigned integer.
RECURSIVE GobPairs(_, _)
GobPairs(b, n) ==
    IF n = 0 THEN << >> ELSE BCat(FromBytes(<< 255, b >>), GobPairs(b, n - 1))

RECURSIVE GobElems(_)
GobElems(d) ==
    IF d = << >> THEN << >>
    ELSE BCat(IF Head(d).b < 128 THEN << Head(d) >>
              ELSE GobPairs(Head(d).b, Head(d).n),
              GobElems(Tail(d)))

\* encoding/gob: the wire-type descriptors a fresh Encoder sends before the
\* first value: the struct's (its name, six field names and type ids) and
\* the [4096]uint8 array's. The source fixes their presence, gob their
\* bytes: 100 and 17 bytes, modelled by one filler byte.
GobDescriptorLen == 117
GobDescriptorByte == 99
GobDescriptor == Fill(GobDescriptorByte, GobDescriptorLen)

\* encoding/gob: the fields of a struct value: each non-zero scalar as
\* (field-number delta, value), each array as (delta, length, elements),
\* then a zero byte. Zero scalars are not sent.
GobFields(e) ==
    LET f0 == IF e.TxnID = 0 THEN << >>
              ELSE BCat(GobUint(1), GobUint(e.TxnID))
        l0 == IF e.TxnID = 0 THEN -1 ELSE 0
        f1 == IF e.Type = 0 THEN << >>
              ELSE BCat(GobUint(1 - l0), GobInt(e.Type))
        l1 == IF e.Type = 0 THEN l0 ELSE 1
        f2 == IF e.PageID = 0 THEN << >>
              ELSE BCat(GobUint(2 - l1), GobUint(e.PageID))
        l2 == IF e.PageID = 0 THEN l1 ELSE 2
        f3 == IF e.Offset = 0 THEN << >>
              ELSE BCat(GobUint(3 - l2), GobUint(e.Offset))
        l3 == IF e.Offset = 0 THEN l2 ELSE 3
        f4 == BCat(BCat(GobUint(4 - l3), GobUint(PageSize)), GobElems(e.OldData))
        f5 == BCat(BCat(GobUint(1), GobUint(PageSize)), GobElems(e.NewData))
    IN  BCat(BCat(BCat(BCat(BCat(BCat(f0, f1), f2), f3), f4), f5), Fill(0, 1))

\* encoding/gob: one value message: its length, the type id (65, the first
\* user type), the fields.
GobValue(e) ==
    LET body == BCat(GobInt(65), GobFields(e))
    IN  BCat(GobUint(BLen(body)), body)

\* SerializeData(entry): gob.NewEncoder(&buf).Encode(entry). A nil entry
\* cannot be encoded.
SerializeData(entry) ==
    IF entry = Nil
    THEN [bytes |-> << >>, err |-> "gob: cannot encode nil pointer"]
    ELSE [bytes |-> BCat(GobDescriptor, GobValue(entry)), err |-> NoErr]

\* DeserializeData(data, size): the fields are read one after the other
\* from a bytes.Reader, every error ignored. binary.Read rejects &entry.Type
\* (WALEntryType is an int, which has no fixed size) before it reads a
\* byte, so Type keeps its zero value and PageID follows TxnID directly.
DeserializeData(data, size) ==
    IF BLen(data) # size
    THEN [entry |-> ZeroEntry, err |-> "invalid entry size"]
    ELSE LET n   == BLen(data)
             p1  == Min(n, 8)
             p2  == Min(n, p1 + 8)
             p3  == Min(n, p2 + 4)
             p4  == Min(n, p3 + PageSize)
             p5  == Min(n, p4 + PageSize)
         IN  [entry |->
                [TxnID   |-> IF p1 = 8 THEN FromLE(BSlice(data, 0, p1)) ELSE 0,
                 Type    |-> EntryTypeWrite,
                 PageID  |-> IF p2 - p1 = 8 THEN FromLE(BSlice(data, p1, p2)) ELSE 0,
                 Offset  |-> IF p3 - p2 = 4 THEN FromLE(BSlice(data, p2, p3)) ELSE 0,
                 OldData |-> IntoBuffer(BSlice(data, p3, p4), PageSize),
                 NewData |-> IntoBuffer(BSlice(data, p4, p5), PageSize)],
              err |-> NoErr]

\* The record layout DeserializeData reads, written out: what a WAL file
\* of fixed ENTRY_SIZE records holds for entry e (its Type has no place
\* in the layout as read; the last 4 bytes are unused).
FixedRecord(e) ==
    BCat(BCat(BCat(BCat(BCat(LE(e.TxnID, 8), LE(e.PageID, 8)), LE(e.Offset, 4)),
                   e.OldData), e.NewData),
         Fill(0, ENTRY_SIZE - 20 - 2 * PageSize))

----------------------------------------------------------------------------
(* Pages                                                                    *)

\* PageHeader{} and PageFooter{} (the zero values).
ZeroHeader ==
    [PageID |-> 0, PageType |-> PageTypeData, RecordCount |-> 0, FreeSpace |-> 0,
     NextPageID |-> 0, PrevPageID |-> 0, Checksum |-> 0, Reserved |-> Fill(0, 24)]

ZeroFooter == [Checksum |-> 0, PageIntegrity |-> 0, Reserved |-> Fill(0, 24)]

\* parseHeader(buffer), parseFooter(buffer): the buffer is not looked at.
parseHeader(buffer) == [header |-> ZeroHeader, err |-> NoErr]

parseFooter(buffer) == [footer |-> ZeroFooter, err |-> NoErr]

\* NewPage(pageType): pageType is not stored.
NewPage(pageType) ==
    [Header |-> ZeroHeader, Body |-> Fill(0, MaxBodySize), Footer |-> ZeroFooter,
     dirty |-> FALSE]

\* (p *Page) MarkDirty(): empty body.
MarkDirty(page) == page

\* (p *Page) IsDirty(): returns false.
IsDirty(page) == FALSE

\* (p *Page) Serialize(): returns nil, nil.
Serialize(page) == [bytes |-> << >>, err |-> NoErr]

\* DeserializePage(data): returns nil, nil.
DeserializePage(data) == [page |-> Nil, err |-> NoErr]

\* (p *Page) calculateChecksum(): returns 0.
calculateChecksum(page) == 0

----------------------------------------------------------------------------
(* State                                                                    *)

VARIABLES
    proc,       \* "running" | "panic": the process
    dataFile,   \* the file at the pager's FilePath
    walFile,    \* the file at the WAL's FilePath
    pager,      \* Nil, or the *Pager NewPager returned
    ret,        \* what the last pager or page call returned
    wal,        \* Nil, or the caller's WriteAheadLog
    walFds,     \* the open *os.File handles on walFile: handle i is walFds[i]
    walRet,     \* what the last WAL call returned
    replay,     \* Nil, or Replay's loop: the entries collected so far
    appended,   \* history: the entries Append accepted, in order (this process)
    pending,    \* history: the accepted entries with bytes still in the Writer
    durable,    \* history: the entries whose bytes were all written to walFile
    readOk,     \* history: the ids ReadPage returned a page for (this pager)
    allocs,     \* history: AllocatePage calls that returned a nil error (this pager)
    crashes,    \* history: restarts after a kill or a panic
    walFile0,   \* history: walFile as it was found at start
    threads,    \* the goroutines that call the pager concurrently
    mutex       \* the pager's sync.RWMutex: who holds it

vars == << proc, dataFile, walFile, pager, ret, wal, walFds, walRet, replay,
           appended, pending, durable, readOk, allocs, crashes, walFile0,
           threads, mutex >>

pagerVars == << dataFile, pager, ret, readOk, allocs >>
walVars == << walFile, wal, walFds, walRet, replay, appended, pending, durable >>
threadVars == << threads, mutex >>

\* The goroutines, and one that is in no call: pc is the line of pager.go
\* it is about to run, id the argument of its call, flushErr and closeErr
\* the locals of Close, calls the calls it has made.
Threads == 1 .. MaxThreads

IdleThread ==
    [pc |-> "idle", id |-> 0, flushErr |-> NoErr, closeErr |-> NoErr, calls |-> 0]

\* The zero sync.RWMutex: no writer (0), no readers.
ZeroMutex == [writer |-> 0, readers |-> {}]

\* What a call returned: the operation, its id argument, the page, the
\* error, the value (IsDirty's boolean, Serialize's bytes).
Ret(op, id, page, err, val) ==
    [op |-> op, id |-> id, page |-> page, err |-> err, val |-> val]

NoRet == Ret("none", 0, Nil, NoErr, FALSE)

WalRet(op, entries, err) == [op |-> op, entries |-> entries, err |-> err]

NoWalRet == WalRet("none", << >>, NoErr)

\* What Replay returned, with the offset its File handle stood at when it
\* was called (history).
ReplayRet(entries, err, from) ==
    [op |-> "Replay", entries |-> entries, err |-> err, from |-> from]

\* make(map[PageID]*Page, n): the empty map.
EmptyCache == [i \in {} |-> Nil]

----------------------------------------------------------------------------
(* Inputs                                                                   *)

PageIDs == 0 .. MaxPageID

Configs ==
    [FilePath : {"", "db"}, MaxCacheSize : 0 .. MaxCache, ReadOnly : BOOLEAN]

\* A data file of k page slots, slot i filled with the byte 16 + i.
RECURSIVE Slots(_)
Slots(k) == IF k = 0 THEN << >> ELSE BCat(Slots(k - 1), Fill(16 + k - 1, PageSize))

\* The data files found at start: none, an empty one, whole slots, and
\* whole slots followed by a torn one.
DataFiles ==
    {NoFile} \cup {FileOf(Slots(k)) : k \in {0, MaxFilePages}}
             \cup {FileOf(BCat(Slots(MaxFilePages - 1), Fill(9, TailLen)))}

\* The entries a caller appends: two writes and the commit of transaction
\* 7, and a nil pointer.
WriteEntry(txn, pageID, b) ==
    [TxnID |-> txn, Type |-> EntryTypeWrite, PageID |-> pageID, Offset |-> 0,
     OldData |-> Fill(0, PageSize), NewData |-> Fill(b, PageSize)]

CommitEntry(txn) ==
    [TxnID |-> txn, Type |-> EntryTypeCommit, PageID |-> 0, Offset |-> 0,
     OldData |-> Fill(0, PageSize), NewData |-> Fill(0, PageSize)]

Entries == {WriteEntry(7, 1, 33), WriteEntry(7, 2, 34), CommitEntry(7), Nil}

\* The WAL files found at start: none, and one of fixed-size records
\* whose last record a crash cut short.
TornWal ==
    FileOf(BCat(FixedRecord(WriteEntry(7, 1, 33)),
                BTake(FixedRecord(WriteEntry(7, 2, 34)), TailLen)))

WalFiles == {NoFile, TornWal}

\* bufio.NewWriter's default size, and a caller's bufio.NewWriterSize.
DefaultBufSize == 4096
LargeBufSize == 32768
BufSizes == {DefaultBufSize, LargeBufSize}

Init ==
    /\ proc = "running"
    /\ dataFile \in DataFiles
    /\ walFile \in WalFiles
    /\ walFile0 = walFile
    /\ pager = Nil
    /\ ret = NoRet
    /\ wal = Nil
    /\ walFds = << >>
    /\ walRet = NoWalRet
    /\ replay = Nil
    /\ appended = << >>
    /\ pending = << >>
    /\ durable = << >>
    /\ readOk = {}
    /\ allocs = 0
    /\ crashes = 0
    /\ threads = [t \in Threads |-> IdleThread]
    /\ mutex = ZeroMutex

\* A caller's thread is free to make a call: no call is under way.
Idle ==
    /\ proc = "running"
    /\ replay = Nil
    /\ \A t \in Threads : threads[t].pc = "idle"

----------------------------------------------------------------------------
(* Pager                                                                    *)

\* NewPager without its check of the path: os.OpenFile("") fails.
NewPagerUnchecked(config, openErr) ==
    IF config.FilePath = "" \/ openErr \/ (config.ReadOnly /\ ~dataFile.exists)
    THEN [pager |-> Nil, err |-> "unable to open file", file |-> dataFile]
    ELSE [pager |-> [file |-> [name |-> config.FilePath,
                               mode |-> IF config.ReadOnly THEN "O_RDONLY" ELSE "O_RDWR",
                               closed |-> FALSE],
                     pageCache |-> EmptyCache,
                     maxPages |-> config.MaxCacheSize,
                     nextPageID |-> 1],
          err |-> NoErr,
          file |-> IF dataFile.exists THEN dataFile ELSE FileOf(<< >>)]

\* NewPager with its allocation cursor left at the zero value.
NewPagerCursorZero(config, openErr) ==
    IF config.FilePath = ""
    THEN [pager |-> Nil, err |-> "filepath cannot be empty", file |-> dataFile]
    ELSE IF openErr \/ (config.ReadOnly /\ ~dataFile.exists)
    THEN [pager |-> Nil, err |-> "unable to open file", file |-> dataFile]
    ELSE [pager |-> [file |-> [name |-> config.FilePath,
                               mode |-> IF config.ReadOnly THEN "O_RDONLY" ELSE "O_RDWR",
                               closed |-> FALSE],
                     pageCache |-> EmptyCache,
                     maxPages |-> config.MaxCacheSize,
                     nextPageID |-> 0],
          err |-> NoErr,
          file |-> IF dataFile.exists THEN dataFile ELSE FileOf(<< >>)]

\* NewPager(config), given whether os.OpenFile fails for a reason of the
\* environment's (permissions): the pager, the error, the data file after.
NewPager(config, openErr) ==
    IF config.FilePath = ""
    THEN [pager |-> Nil, err |-> "filepath cannot be empty", file |-> dataFile]
    ELSE IF openErr \/ (config.ReadOnly /\ ~dataFile.exists)
    THEN [pager |-> Nil, err |-> "unable to open file", file |-> dataFile]
    ELSE [pager |-> [file |-> [name |-> config.FilePath,
                               mode |-> IF config.ReadOnly THEN "O_RDONLY" ELSE "O_RDWR",
                               closed |-> FALSE],
                     pageCache |-> EmptyCache,
                     maxPages |-> config.MaxCacheSize,
                     nextPageID |-> 1],
          err |-> NoErr,
          file |-> IF dataFile.exists THEN dataFile ELSE FileOf(<< >>)]

\* (p *Pager) ReadPage(pageID): the page and the error.
ReadPage(p, pageID) ==
    LET offset == pageID * PageSize
        size   == BLen(dataFile.bytes)
        buffer == BSlice(dataFile.bytes, offset, offset + PageSize)
    IN  IF pageID > p.maxPages
        THEN [page |-> Nil, err |-> "unable to read page"]
        ELSE IF p.file.closed
        THEN [page |-> Nil, err |-> "unable to get file info"]
        ELSE IF offset > size
        THEN [page |-> Nil, err |-> "out of bounds of file"]
        ELSE IF BLen(buffer) < PageSize
        THEN [page |-> Nil, err |-> "error reading file from offset"]
        ELSE IF parseHeader(buffer).err # NoErr
        THEN [page |-> Nil, err |-> "error reading header component"]
        ELSE IF parseFooter(buffer).err # NoErr
        THEN [page |-> Nil, err |-> "error reading footer component"]
        ELSE [page |-> [Header |-> parseHeader(buffer).header,
                        Body   |-> BSlice(buffer, HeaderSize, PageSize - FooterSize),
                        Footer |-> parseFooter(buffer).footer,
                        dirty  |-> FALSE],
              err |-> NoErr]

\* (p *Pager) FlushAll(): returns nil.
FlushAll(p) == NoErr

\* (p *Pager) FlushPage(pageID): returns nil.
FlushPage(p, pageID) == NoErr

\* (p *Pager) WritePage(page): returns nil.
WritePage(p, page) == NoErr

\* (p *Pager) AllocatePage(pageType): returns nil, nil.
AllocatePage(p, pageType) == [page |-> Nil, err |-> NoErr]

\* (p *Pager) DeallocatePage(pageID): returns nil.
DeallocatePage(p, pageID) == NoErr

\* (p *Pager) evictLRU(), addToCache(page), removeFromCache(pageID): the
\* pager after the call. None of them touches the cache.
evictLRU(p) == p

addToCache(p, page) == p

removeFromCache(p, pageID) == p

\* BeginTransaction, CommitTransaction, RollbackTransaction: return nil.
BeginTransaction(p) == NoErr

CommitTransaction(p) == NoErr

RollbackTransaction(p) == NoErr

\* Close that reports the file's error alone.
CloseErrorOfFile(flushErr, closeErr) ==
    IF closeErr # NoErr THEN "unable to close file" ELSE NoErr

\* The error Close returns, from FlushAll's and the file Close's.
CloseError(flushErr, closeErr) ==
    IF flushErr # NoErr THEN "unable to flush pages"
    ELSE IF closeErr # NoErr THEN "unable to close file"
    ELSE NoErr

\* (f *os.File) Close(): fails on a handle that is closed already.
FileClose(file) == IF file.closed THEN "file already closed" ELSE NoErr

\* (p *Pager) Close(): the pager after the call and the error. FlushAll
\* runs on the pager as it is before the file is closed.
Close(p) ==
    LET flushErr == FlushAll(p)
        closeErr == FileClose(p.file)
        after    == [p EXCEPT !.file.closed = TRUE, !.pageCache = EmptyCache]
    IN  [pager |-> after, err |-> CloseError(flushErr, closeErr)]

\* --- the calls a caller makes on the pager ---

\* NewPager(config) called, os.OpenFile failing or not for a reason of the
\* environment's.
CallNewPager(config, openErr) ==
    /\ Idle
    /\ IF pager = Nil THEN TRUE ELSE pager.file.closed
    /\ LET r == NewPager(config, openErr)
       IN  /\ pager' = IF r.err = NoErr THEN r.pager ELSE pager
           /\ dataFile' = r.file
           /\ ret' = Ret("NewPager", 0, Nil, r.err, FALSE)
           /\ readOk' = IF r.err = NoErr THEN {} ELSE readOk
           /\ allocs' = IF r.err = NoErr THEN 0 ELSE allocs
    /\ UNCHANGED << proc, crashes, walFile0 >>
    /\ UNCHANGED walVars
    /\ UNCHANGED threadVars

DoNewPager == \E config \in Configs, openErr \in BOOLEAN : CallNewPager(config, openErr)

DoClose ==
    /\ Idle
    /\ pager # Nil
    /\ LET r == Close(pager)
       IN  /\ pager' = r.pager
           /\ ret' = Ret("Close", 0, Nil, r.err, FALSE)
    /\ UNCHANGED << proc, crashes, walFile0, dataFile, readOk, allocs >>
    /\ UNCHANGED walVars
    /\ UNCHANGED threadVars

\* A ReadPage that takes the page's place in the cache before it reads the
\* file and leaves it there when the read fails.
DoReadPageReserving ==
    /\ Idle
    /\ pager # Nil
    /\ \E pageID \in PageIDs :
         LET r == ReadPage(pager, pageID)
         IN  /\ ret' = Ret("ReadPage", pageID, r.page, r.err, FALSE)
             /\ readOk' = IF r.err = NoErr THEN readOk \cup {pageID} ELSE readOk
             /\ pager' = [pager EXCEPT !.pageCache = [i \in {pageID} |-> r.page]]
    /\ UNCHANGED << proc, crashes, walFile0, dataFile, allocs >>
    /\ UNCHANGED walVars
    /\ UNCHANGED threadVars

DoReadPage ==
    /\ Idle
    /\ pager # Nil
    /\ \E pageID \in PageIDs :
         LET r == ReadPage(pager, pageID)
         IN  /\ ret' = Ret("ReadPage", pageID, r.page, r.err, FALSE)
             /\ readOk' = IF r.err = NoErr THEN readOk \cup {pageID} ELSE readOk
    /\ UNCHANGED << proc, crashes, walFile0, dataFile, pager, allocs >>
    /\ UNCHANGED walVars
    /\ UNCHANGED threadVars

DoAllocatePage ==
    /\ Idle
    /\ pager # Nil
    /\ \E pageType \in PageTypes :
         LET r == AllocatePage(pager, pageType)
         IN  /\ ret' = Ret("AllocatePage", pageType, r.page, r.err, FALSE)
             /\ allocs' = IF r.err = NoErr THEN Min(allocs + 1, MaxAllocs) ELSE allocs
    /\ UNCHANGED << proc, crashes, walFile0, dataFile, pager, readOk >>
    /\ UNCHANGED walVars
    /\ UNCHANGED threadVars

\* WritePage(page), the page being the one the last call returned.
DoWritePage ==
    /\ Idle
    /\ pager # Nil
    /\ ret' = Ret("WritePage", 0, ret.page, WritePage(pager, ret.page), FALSE)
    /\ UNCHANGED << proc, crashes, walFile0, dataFile, pager, readOk, allocs >>
    /\ UNCHANGED walVars
    /\ UNCHANGED threadVars

DoDeallocatePage ==
    /\ Idle
    /\ pager # Nil
    /\ \E pageID \in PageIDs :
         ret' = Ret("DeallocatePage", pageID, Nil, DeallocatePage(pager, pageID), FALSE)
    /\ UNCHANGED << proc, crashes, walFile0, dataFile, pager, readOk, allocs >>
    /\ UNCHANGED walVars
    /\ UNCHANGED threadVars

DoFlushPage ==
    /\ Idle
    /\ pager # Nil
    /\ \E pageID \in PageIDs :
         ret' = Ret("FlushPage", pageID, Nil, FlushPage(pager, pageID), FALSE)
    /\ UNCHANGED << proc, crashes, walFile0, dataFile, pager, readOk, allocs >>
    /\ UNCHANGED walVars
    /\ UNCHANGED threadVars

DoFlushAll ==
    /\ Idle
    /\ pager # Nil
    /\ ret' = Ret("FlushAll", 0, Nil, FlushAll(pager), FALSE)
    /\ UNCHANGED << proc, crashes, walFile0, dataFile, pager, readOk, allocs >>
    /\ UNCHANGED walVars
    /\ UNCHANGED threadVars

DoTransaction ==
    /\ Idle
    /\ pager # Nil
    /\ \/ ret' = Ret("BeginTransaction", 0, Nil, BeginTransaction(pager), FALSE)
       \/ ret' = Ret("CommitTransaction", 0, Nil, CommitTransaction(pager), FALSE)
       \/ ret' = Ret("RollbackTransaction", 0, Nil, RollbackTransaction(pager), FALSE)
    /\ UNCHANGED << proc, crashes, walFile0, dataFile, pager, readOk, allocs >>
    /\ UNCHANGED walVars
    /\ UNCHANGED threadVars

DoNewPage ==
    /\ Idle
    /\ \E pageType \in PageTypes :
         ret' = Ret("NewPage", pageType, NewPage(pageType), NoErr, FALSE)
    /\ UNCHANGED << proc, crashes, walFile0, dataFile, pager, readOk, allocs >>
    /\ UNCHANGED walVars
    /\ UNCHANGED threadVars

\* page.MarkDirty(), page.IsDirty() on the page the last call returned (a
\* nil *Page too: neither method reads its receiver).
DoMarkDirty ==
    /\ Idle
    /\ ret.op \in {"NewPage", "ReadPage", "AllocatePage", "IsDirty"}
    /\ ret' = Ret("MarkDirty", ret.id, MarkDirty(ret.page), NoErr, FALSE)
    /\ UNCHANGED << proc, crashes, walFile0, dataFile, pager, readOk, allocs >>
    /\ UNCHANGED walVars
    /\ UNCHANGED threadVars

DoIsDirty ==
    /\ Idle
    /\ ret.op \in {"NewPage", "ReadPage", "AllocatePage", "MarkDirty"}
    /\ ret' = Ret("IsDirty", ret.id, ret.page, NoErr, IsDirty(ret.page))
    /\ UNCHANGED << proc, crashes, walFile0, dataFile, pager, readOk, allocs >>
    /\ UNCHANGED walVars
    /\ UNCHANGED threadVars

\* page.Serialize() on the page the last call returned: val holds the
\* bytes.
DoSerialize ==
    /\ Idle
    /\ ret.op \in {"NewPage", "ReadPage"}
    /\ ret.page # Nil
    /\ LET r == Serialize(ret.page)
       IN  ret' = Ret("Serialize", ret.id, ret.page, r.err, r.bytes)
    /\ UNCHANGED << proc, crashes, walFile0, dataFile, pager, readOk, allocs >>
    /\ UNCHANGED walVars
    /\ UNCHANGED threadVars

\* The buffers a caller decodes besides Serialize's results: a zeroed page,
\* one byte less, one byte more, nothing.
Buffers ==
    {Fill(0, PageSize), Fill(0, PageSize - 1), Fill(0, PageSize + 1), << >>}

\* DeserializePage(data) called: id holds len(data).
CallDeserializePage(data) ==
    /\ Idle
    /\ LET r == DeserializePage(data)
       IN  ret' = Ret("DeserializePage", BLen(data), r.page, r.err, FALSE)
    /\ UNCHANGED << proc, crashes, walFile0, dataFile, pager, readOk, allocs >>
    /\ UNCHANGED walVars
    /\ UNCHANGED threadVars

DoDeserializePage ==
    \/ ret.op = "Serialize" /\ CallDeserializePage(ret.val)
    \/ \E data \in Buffers : CallDeserializePage(data)

----------------------------------------------------------------------------
(* Concurrent calls on the pager                                            *)

\* Goroutine t after a step that takes it to line pc, and after a return.
At(t, pc) == [threads EXCEPT ![t].pc = pc]

Returned(t) ==
    [threads EXCEPT ![t] = [IdleThread EXCEPT !.calls = threads[t].calls]]

\* Goroutine t calls ReadPage(pageID), AllocatePage(pageType) or Close()
\* on the pager. No method of the pager locks or unlocks p.mutex.
ThreadCall(t) ==
    /\ proc = "running"
    /\ pager # Nil
    /\ threads[t].pc = "idle"
    /\ threads[t].calls < MaxThreadCalls
    /\ \/ \E pageID \in PageIDs :
            threads' = [threads EXCEPT ![t].pc = "ReadPage:131", ![t].id = pageID,
                                       ![t].calls = @ + 1]
       \/ \E pageType \in PageTypes :
            threads' = [threads EXCEPT ![t].pc = "AllocatePage:210", ![t].id = pageType,
                                       ![t].calls = @ + 1]
       \/ threads' = [threads EXCEPT ![t].pc = "Close:108", ![t].calls = @ + 1]
    /\ UNCHANGED << proc, crashes, walFile0, mutex >>
    /\ UNCHANGED pagerVars
    /\ UNCHANGED walVars

\* ReadPage, line 131: the range check, which reads p.maxPages.
ThreadReadPageCheck(t) ==
    /\ proc = "running"
    /\ threads[t].pc = "ReadPage:131"
    /\ IF threads[t].id > pager.maxPages
       THEN /\ ret' = Ret("ReadPage", threads[t].id, Nil, "unable to read page", FALSE)
            /\ threads' = Returned(t)
       ELSE /\ threads' = At(t, "ReadPage:139")
            /\ UNCHANGED ret
    /\ UNCHANGED << proc, crashes, walFile0, mutex, dataFile, pager, readOk, allocs >>
    /\ UNCHANGED walVars

\* ReadPage, lines 138 to 188: Stat and ReadAt on p.file, and the page.
ThreadReadPageFile(t) ==
    /\ proc = "running"
    /\ threads[t].pc = "ReadPage:139"
    /\ LET r == ReadPage(pager, threads[t].id)
       IN  /\ ret' = Ret("ReadPage", threads[t].id, r.page, r.err, FALSE)
           /\ readOk' = IF r.err = NoErr THEN readOk \cup {threads[t].id} ELSE readOk
    /\ threads' = Returned(t)
    /\ UNCHANGED << proc, crashes, walFile0, mutex, dataFile, pager, allocs >>
    /\ UNCHANGED walVars

\* AllocatePage, line 210.
ThreadAllocatePage(t) ==
    /\ proc = "running"
    /\ threads[t].pc = "AllocatePage:210"
    /\ LET r == AllocatePage(pager, threads[t].id)
       IN  /\ ret' = Ret("AllocatePage", threads[t].id, r.page, r.err, FALSE)
           /\ allocs' = IF r.err = NoErr THEN Min(allocs + 1, MaxAllocs) ELSE allocs
    /\ threads' = Returned(t)
    /\ UNCHANGED << proc, crashes, walFile0, mutex, dataFile, pager, readOk >>
    /\ UNCHANGED walVars

\* Close, line 108: flushErr := p.FlushAll().
ThreadCloseFlush(t) ==
    /\ proc = "running"
    /\ threads[t].pc = "Close:108"
    /\ threads' = [threads EXCEPT ![t].pc = "Close:109", ![t].flushErr = FlushAll(pager)]
    /\ UNCHANGED << proc, crashes, walFile0, mutex >>
    /\ UNCHANGED pagerVars
    /\ UNCHANGED walVars

\* Close, line 109: closeErr := p.file.Close().
ThreadCloseFile(t) ==
    /\ proc = "running"
    /\ threads[t].pc = "Close:109"
    /\ threads' = [threads EXCEPT ![t].pc = "Close:110",
                                  ![t].closeErr = FileClose(pager.file)]
    /\ pager' = [pager EXCEPT !.file.closed = TRUE]
    /\ UNCHANGED << proc, crashes, walFile0, mutex, dataFile, ret, readOk, allocs >>
    /\ UNCHANGED walVars

\* Close, line 110: p.pageCache = make(map[PageID]*Page, p.maxPages), a
\* write of p.pageCache.
ThreadCloseCache(t) ==
    /\ proc = "running"
    /\ threads[t].pc = "Close:110"
    /\ threads' = At(t, "Close:112")
    /\ pager' = [pager EXCEPT !.pageCache = EmptyCache]
    /\ UNCHANGED << proc, crashes, walFile0, mutex, dataFile, ret, readOk, allocs >>
    /\ UNCHANGED walVars

\* Close, lines 112 to 126: the error returned.
ThreadCloseReturn(t) ==
    /\ proc = "running"
    /\ threads[t].pc = "Close:112"
    /\ ret' = Ret("Close", 0, Nil,
                  CloseError(threads[t].flushErr, threads[t].closeErr), FALSE)
    /\ threads' = Returned(t)
    /\ UNCHANGED << proc, crashes, walFile0, mutex, dataFile, pager, readOk, allocs >>
    /\ UNCHANGED walVars

\* The lines at which a goroutine writes, and reads, p.pageCache or
\* p.nextPageID: Close's reset of the cache is the one access there is.
CacheWrites == {"Close:110"}

CacheReads == {}

----------------------------------------------------------------------------
(* Write-ahead log                                                          *)

\* A WriteAheadLog as a caller builds it (the type has no constructor):
\* Empty, with FilePath alone; or Open, its File opened on FilePath with
\* O_RDWR|O_CREATE and its Writer a bufio.Writer of `size` bytes on File.
EmptyWAL == [FilePath |-> "wal", File |-> 0, Writer |-> Nil]

OpenWAL(fd, size) ==
    [FilePath |-> "wal", File |-> fd,
     Writer |-> [wr |-> fd, size |-> size, buf |-> << >>]]

\* (b *bufio.Writer) Write(p): the buffer after, and the bytes passed on to
\* the underlying file. A write that does not fit goes to the file
\* directly when the buffer is empty; otherwise the buffer is filled up
\* and flushed first.
Write(w, p) ==
    LET avail == w.size - BLen(w.buf)
        rest  == BDrop(p, avail)
    IN  IF BLen(p) <= avail
        THEN [buf |-> BCat(w.buf, p), out |-> << >>]
        ELSE IF w.buf = << >>
        THEN [buf |-> << >>, out |-> p]
        ELSE IF BLen(rest) <= w.size
        THEN [buf |-> rest, out |-> BCat(w.buf, BTake(p, avail))]
        ELSE [buf |-> << >>, out |-> BCat(w.buf, p)]

\* (wal *WriteAheadLog) Create(): wal.File.Name() dereferences a nil File;
\* a File whose path os.Stat no longer finds is replaced by a fresh handle
\* on FilePath (the Writer keeps the handle it was built on).
Create(w) ==
    IF w.File = 0
    THEN [panic |-> TRUE, err |-> NoErr, wal |-> w, fds |-> walFds, file |-> walFile]
    ELSE IF walFile.exists
    THEN [panic |-> FALSE, err |-> NoErr, wal |-> w, fds |-> walFds, file |-> walFile]
    ELSE IF w.FilePath = ""
    THEN [panic |-> FALSE, err |-> "open: no such file or directory", wal |-> w,
          fds |-> walFds, file |-> walFile]
    ELSE [panic |-> FALSE, err |-> NoErr,
          wal |-> [w EXCEPT !.File = Len(walFds) + 1],
          fds |-> Append(walFds, [pos |-> 0]),
          file |-> FileOf(<< >>)]

\* (f *os.File) Read(b) with len(b) = n: a nil File is invalid; at the end
\* of the file 0 bytes and io.EOF; otherwise the bytes up to the end of the
\* file, at most n, and the handle moved past them.
FileRead(fd, n) ==
    IF fd = 0
    THEN [data |-> << >>, err |-> "invalid argument", fds |-> walFds]
    ELSE LET pos  == walFds[fd].pos
             data == BSlice(walFile.bytes, pos, pos + n)
         IN  IF data = << >>
             THEN [data |-> << >>, err |-> "EOF", fds |-> walFds]
             ELSE [data |-> data, err |-> NoErr,
                   fds |-> [walFds EXCEPT ![fd].pos = pos + BLen(data)]]

\* --- the calls a caller makes on the WAL ---

DoNewWAL ==
    /\ Idle
    /\ wal = Nil
    /\ \/ /\ wal' = EmptyWAL
          /\ UNCHANGED << walFile, walFds >>
       \/ \E size \in BufSizes :
            /\ wal' = OpenWAL(Len(walFds) + 1, size)
            /\ walFds' = Append(walFds, [pos |-> 0])
            /\ walFile' = IF walFile.exists THEN walFile ELSE FileOf(<< >>)
    /\ UNCHANGED << proc, crashes, walFile0, walRet, replay, appended, pending, durable >>
    /\ UNCHANGED pagerVars
    /\ UNCHANGED threadVars

DoCreate ==
    /\ Idle
    /\ wal # Nil
    /\ LET c == Create(wal)
       IN  /\ proc' = IF c.panic THEN "panic" ELSE proc
           /\ walRet' = WalRet("Create", << >>, IF c.panic THEN "panic" ELSE c.err)
           /\ wal' = c.wal
           /\ walFds' = c.fds
           /\ walFile' = c.file
    /\ UNCHANGED << crashes, walFile0, replay, appended, pending, durable >>
    /\ UNCHANGED pagerVars
    /\ UNCHANGED threadVars

\* (wal *WriteAheadLog) Append(entry) called.
CallAppend(entry) ==
    /\ Idle
    /\ wal # Nil
    /\ Len(appended) < MaxAppends
    /\ LET c == Create(wal)
           s == SerializeData(entry)
       IN  IF c.panic \/ (c.err = NoErr /\ s.err = NoErr /\ c.wal.Writer = Nil)
           THEN \* nil File in Create, or a nil Writer in Writer.Write
                /\ proc' = "panic"
                /\ walRet' = WalRet("Append", << >>, "panic")
                /\ wal' = c.wal
                /\ walFds' = c.fds
                /\ walFile' = c.file
                /\ UNCHANGED << appended, pending, durable >>
           ELSE IF c.err # NoErr \/ s.err # NoErr
           THEN /\ walRet' = WalRet("Append", << >>,
                                    IF c.err # NoErr THEN c.err ELSE s.err)
                /\ wal' = c.wal
                /\ walFds' = c.fds
                /\ walFile' = c.file
                /\ UNCHANGED << proc, appended, pending, durable >>
           ELSE LET w  == Write(c.wal.Writer, s.bytes)
                    fd == c.wal.Writer.wr
                IN  /\ walRet' = WalRet("Append", << >>, NoErr)
                    /\ wal' = [c.wal EXCEPT !.Writer.buf = w.buf]
                    /\ walFile' = FileOf(WriteAtPos(c.file.bytes, c.fds[fd].pos, w.out))
                    /\ walFds' = [c.fds EXCEPT ![fd].pos = @ + BLen(w.out)]
                    /\ appended' = Append(appended, entry)
                    /\ pending' = IF w.buf = << >> THEN << >>
                                  ELSE IF w.out = << >> THEN Append(pending, entry)
                                  ELSE << entry >>
                    /\ durable' = IF w.buf = << >> THEN durable \o Append(pending, entry)
                                  ELSE IF w.out = << >> THEN durable
                                  ELSE durable \o pending
                    /\ UNCHANGED proc
    /\ UNCHANGED << crashes, walFile0, replay >>
    /\ UNCHANGED pagerVars
    /\ UNCHANGED threadVars

DoAppend == \E entry \in Entries : CallAppend(entry)

\* (wal *WriteAheadLog) Flush(): panic("Implement this functino")
DoFlush ==
    /\ Idle
    /\ wal # Nil
    /\ proc' = "panic"
    /\ walRet' = WalRet("Flush", << >>, "panic")
    /\ UNCHANGED << crashes, walFile0, walFile, wal, walFds, replay, appended, pending, durable >>
    /\ UNCHANGED pagerVars
    /\ UNCHANGED threadVars

\* (wal *WriteAheadLog) Close(): panic("Implement this function")
DoWALClose ==
    /\ Idle
    /\ wal # Nil
    /\ proc' = "panic"
    /\ walRet' = WalRet("Close", << >>, "panic")
    /\ UNCHANGED << crashes, walFile0, walFile, wal, walFds, replay, appended, pending, durable >>
    /\ UNCHANGED pagerVars
    /\ UNCHANGED threadVars

\* (wal *WriteAheadLog) Replay(): entry, with no entries yet.
DoReplay ==
    /\ Idle
    /\ wal # Nil
    /\ replay' = [entries |-> << >>,
                  from |-> IF wal.File = 0 THEN 0 ELSE walFds[wal.File].pos]
    /\ walRet' = NoWalRet
    /\ UNCHANGED << proc, crashes, walFile0, walFile, wal, walFds, appended, pending, durable >>
    /\ UNCHANGED pagerVars
    /\ UNCHANGED threadVars

\* One iteration of Replay's loop: read into a fresh ENTRY_SIZE buffer
\* (the count read is dropped), leave on io.EOF and on no other error,
\* deserialize the whole buffer, collect the entry.
ReplayLoop ==
    /\ proc = "running"
    /\ replay # Nil
    /\ LET r == FileRead(wal.File, ENTRY_SIZE)
           serialized_entry == IntoBuffer(r.data, ENTRY_SIZE)
           d == DeserializeData(serialized_entry, ENTRY_SIZE)
       IN  /\ walFds' = r.fds
           /\ IF r.err = "EOF"
              THEN /\ walRet' = ReplayRet(replay.entries, NoErr, replay.from)
                   /\ replay' = Nil
              ELSE IF d.err # NoErr
              THEN /\ walRet' = ReplayRet(replay.entries, "unable to deserialize data",
                                        replay.from)
                   /\ replay' = Nil
              ELSE /\ Len(replay.entries) < MaxReplayLoop
                   /\ replay' = [replay EXCEPT !.entries = Append(@, d.entry)]
                   /\ UNCHANGED walRet
    /\ UNCHANGED << proc, crashes, walFile0, walFile, wal, appended, pending, durable >>
    /\ UNCHANGED pagerVars
    /\ UNCHANGED threadVars

----------------------------------------------------------------------------
(* The process                                                              *)

\* What a restart leaves: memory is lost, the two files stay as they are.
Restarted ==
    /\ proc' = "running"
    /\ crashes' = crashes + 1
    /\ pager' = Nil
    /\ ret' = NoRet
    /\ wal' = Nil
    /\ walFds' = << >>
    /\ walRet' = NoWalRet
    /\ replay' = Nil
    /\ appended' = << >>
    /\ pending' = << >>
    /\ readOk' = {}
    /\ allocs' = 0
    /\ threads' = [t \in Threads |-> IdleThread]
    /\ mutex' = ZeroMutex
    /\ UNCHANGED << dataFile, walFile, durable, walFile0 >>

\* The running process is killed (a crash, a power cut) and the program
\* started again.
Crash ==
    /\ proc = "running"
    /\ crashes < MaxCrashes
    /\ Restarted

\* The program is started again after a panic.
Restart ==
    /\ proc = "panic"
    /\ crashes < MaxCrashes
    /\ Restarted

\* The pager and the WAL share no state in the code (a Pager holds no
\* WriteAheadLog): the calls on each are checked apart, and the calls that
\* recovery after a crash is made of are checked together.
NextPager ==
    \/ DoNewPager
    \/ DoClose
    \/ DoReadPage
    \/ DoAllocatePage
    \/ DoWritePage
    \/ DoDeallocatePage
    \/ DoFlushPage
    \/ DoFlushAll
    \/ DoTransaction
    \/ DoNewPage
    \/ DoMarkDirty
    \/ DoIsDirty
    \/ DoSerialize
    \/ DoDeserializePage

NextWAL ==
    \/ DoNewWAL
    \/ DoCreate
    \/ DoAppend
    \/ DoFlush
    \/ DoWALClose
    \/ DoReplay
    \/ ReplayLoop
    \/ Crash
    \/ Restart

NextEngine ==
    \/ DoNewPager
    \/ DoClose
    \/ DoFlushAll
    \/ DoNewWAL
    \/ DoAppend
    \/ DoReplay
    \/ ReplayLoop
    \/ Crash
    \/ Restart

SpecPager == Init /\ [][NextPager]_vars

SpecWAL == Init /\ [][NextWAL]_vars

\* Goroutines calling one pager concurrently.
NextThreads ==
    \/ DoNewPager
    \/ \E t \in Threads : ThreadCall(t)
    \/ \E t \in Threads : ThreadReadPageCheck(t)
    \/ \E t \in Threads : ThreadReadPageFile(t)
    \/ \E t \in Threads : ThreadAllocatePage(t)
    \/ \E t \in Threads : ThreadCloseFlush(t)
    \/ \E t \in Threads : ThreadCloseFile(t)
    \/ \E t \in Threads : ThreadCloseCache(t)
    \/ \E t \in Threads : ThreadCloseReturn(t)

InitThreads == Init /\ walFile = NoFile

SpecThreads == InitThreads /\ [][NextThreads]_vars

Next == NextPager \/ NextWAL \/ NextThreads

Spec == Init /\ [][Next]_vars

\* Recovery starts from a data file of whole page slots and no WAL file.
InitEngine == Init /\ dataFile = FileOf(Slots(MaxFilePages)) /\ walFile = NoFile

SpecEngine == InitEngine /\ [][NextEngine]_vars

----------------------------------------------------------------------------
(* Claims                                                                   *)

\* The bytes of page slot pageID of the data file.
Slot(pageID) == BSlice(dataFile.bytes, pageID * PageSize, (pageID + 1) * PageSize)

\* No Commit entry is waiting in the WAL's Writer.
NoPendingCommit == \A i \in 1 .. Len(pending) : pending[i].Type # EntryTypeCommit

\* Transaction txn's Commit entry has been written to the WAL file.
Committed(txn) ==
    \E i \in 1 .. Len(durable) :
        durable[i].Type = EntryTypeCommit /\ durable[i].TxnID = txn

\* C1. Write-ahead ordering: the data file's bytes change only when no
\* Commit entry is still waiting in the WAL's Writer, and FlushAll (also
\* as called by Close) on a pager opened for writing leaves no Commit
\* entry waiting: it flushes the WAL's pending commit records before it
\* writes any page.
C1_WriteAheadOrdering ==
    [][ /\ (dataFile'.bytes # dataFile.bytes) => NoPendingCommit
        /\ ((DoFlushAll \/ DoClose) /\ pager.file.mode = "O_RDWR")
              => NoPendingCommit' ]_vars

\* C2. Recovery atomicity: once the program has been restarted after a
\* crash, the pager reopened and the WAL replayed, every Write entry in
\* the WAL file has its NewData in its page's slot of the data file if
\* its transaction's Commit entry is in the WAL file, and not otherwise.
C2_RecoveryAtomicity ==
    ( /\ crashes > 0
      /\ proc = "running"
      /\ appended = << >>
      /\ pager # Nil
      /\ walRet.op = "Replay" )
    => \A i \in 1 .. Len(durable) :
          durable[i].Type = EntryTypeWrite
          => ((Slot(durable[i].PageID) = durable[i].NewData)
                <=> Committed(durable[i].TxnID))

\* C3. WAL round trip: when Replay returns on a WAL file that started
\* empty and every appended entry has left the Writer, it returns no error
\* and exactly the appended entries, in order, wherever the File handle
\* stood.
C3_ReplayRoundTrip ==
    ( /\ walRet.op = "Replay"
      /\ walFile0 = NoFile
      /\ crashes = 0
      /\ pending = << >> )
    => (walRet.err = NoErr /\ walRet.entries = appended)

\* C4. Truncated tail: when Replay, called with its File handle at the
\* start of a WAL file of n whole ENTRY_SIZE records and a partial one,
\* returns, it returns no error and exactly n entries: the partial record
\* is not among them.
C4_TruncatedTailDiscarded ==
    ( /\ walRet.op = "Replay"
      /\ walRet.from = 0
      /\ BLen(walFile.bytes) % ENTRY_SIZE # 0 )
    => ( /\ walRet.err = NoErr
         /\ Len(walRet.entries) = BLen(walFile.bytes) \div ENTRY_SIZE )

\* C5. Cache bound: the cache of an open pager never holds more than
\* maxPages entries, and once more than maxPages distinct pages have been
\* inserted (AllocatePage calls that returned no error, ids ReadPage
\* returned a page for) it holds exactly maxPages.
C5_CacheBound ==
    (pager # Nil /\ ~pager.file.closed)
    => ( /\ Cardinality(DOMAIN pager.pageCache) <= pager.maxPages
         /\ (allocs + Cardinality(readOk) > pager.maxPages
               => Cardinality(DOMAIN pager.pageCache) = pager.maxPages) )

\* C7. ReadPage range check: a ReadPage of an id at or beyond the
\* allocation cursor nextPageID returns an error.
C7_ReadPageRangeCheck ==
    (ret.op = "ReadPage" /\ ret.id >= pager.nextPageID) => ret.err # NoErr

\* C8. ReadPage integrity: a page ReadPage(id) returns without error has
\* Header.PageID = id.
C8_ReadPageIntegrity ==
    (ret.op = "ReadPage" /\ ret.err = NoErr)
    => (ret.page # Nil /\ ret.page.Header.PageID = ret.id)

\* C9. Allocation: the k-th AllocatePage call of a session that returns no
\* error returns a non-nil page of the requested type with Header.PageID =
\* k, marked dirty and cached under k, and moves nextPageID to k + 1.
C9_AllocationMonotonic ==
    (ret.op = "AllocatePage" /\ ret.err = NoErr /\ allocs < MaxAllocs)
    => ( /\ ret.page # Nil
         /\ ret.page.Header.PageID = allocs
         /\ ret.page.Header.PageType = ret.id
         /\ ret.page.dirty
         /\ allocs \in DOMAIN pager.pageCache
         /\ pager.nextPageID = allocs + 1 )

\* The calls that mutate.
Mutating ==
    {"AllocatePage", "WritePage", "DeallocatePage", "FlushPage", "FlushAll",
     "BeginTransaction", "CommitTransaction", "RollbackTransaction"}

\* C10. Read-only rejection: a mutating call on a pager opened with
\* ReadOnly = true returns an error.
C10_ReadOnlyRejection ==
    (pager # Nil /\ pager.file.mode = "O_RDONLY" /\ ret.op \in Mutating)
    => ret.err # NoErr

\* C11. Empty path: a NewPager call with FilePath = "" (any MaxCacheSize,
\* any ReadOnly) returns the error "filepath cannot be empty", hands the
\* caller no pager, and opens or creates no file.
C11_EmptyPathRejected ==
    [][ ret'.op = "NewPager"
          => \A config \in Configs, openErr \in BOOLEAN :
               (config.FilePath = "" /\ CallNewPager(config, openErr))
               => ( /\ ret'.err = "filepath cannot be empty"
                    /\ NewPager(config, openErr).pager = Nil
                    /\ pager' = pager
                    /\ dataFile' = dataFile ) ]_vars

\* A NewPager call with an empty path has returned, on a machine with no
\* data file.
C11_Witness ==
    ret.op = "NewPager" /\ ret.err = "filepath cannot be empty" /\ dataFile = NoFile

\* C12. Successful open: a NewPager call with a non-empty FilePath whose
\* file can be opened returns a nil error and a pager whose file is named
\* FilePath, whose maxPages is MaxCacheSize, whose cache is empty and
\* whose nextPageID is 1; and NewPage returns a non-nil page.
C12_SuccessfulOpen ==
    [][ /\ ret'.op = "NewPager"
             => \A config \in Configs, openErr \in BOOLEAN :
                  ( /\ config.FilePath # ""
                    /\ ~openErr
                    /\ (config.ReadOnly => dataFile.exists)
                    /\ CallNewPager(config, openErr) )
                  => ( /\ ret'.err = NoErr
                       /\ pager' # Nil
                       /\ pager'.file.name = config.FilePath
                       /\ ~pager'.file.closed
                       /\ pager'.maxPages = config.MaxCacheSize
                       /\ pager'.pageCache = EmptyCache
                       /\ pager'.nextPageID = 1 )
        /\ (ret'.op = "NewPage" /\ DoNewPage) => ret'.page # Nil ]_vars

\* NewPager has created the data file and returned a pager of the largest
\* capacity.
C12_Witness ==
    /\ ret.op = "NewPager"
    /\ ret.err = NoErr
    /\ pager # Nil
    /\ pager.maxPages = MaxCache
    /\ dataFile = FileOf(<< >>)

\* The errors a step of Close can end with.
Errs == {NoErr, "input/output error"}

\* C13. Close: FlushAll runs on the pager with its file still open, the
\* file is closed when Close returns, and Close returns nil exactly when
\* FlushAll and the file's Close both returned nil: whichever errors the
\* two end with, an error of either is returned, a flush error also when
\* the file's Close succeeds.
C13_CloseErrorPropagation ==
    [][ /\ \A flushErr \in Errs, closeErr \in Errs :
             (CloseError(flushErr, closeErr) = NoErr)
                <=> (flushErr = NoErr /\ closeErr = NoErr)
        /\ DoClose
             => ( /\ (ret'.err = NoErr)
                       <=> (FlushAll(pager) = NoErr /\ FileClose(pager.file) = NoErr)
                  /\ pager'.file.closed ) ]_vars

\* Close has been called on a pager closed already: the file's Close
\* failed and Close returned its error.
C13_Witness ==
    ret.op = "Close" /\ ret.err = "unable to close file" /\ pager.file.closed

\* C14. Page codec: Serialize of a page returns PageSize bytes and no
\* error; DeserializePage of those bytes returns no error and a page with
\* the same header, body and footer; DeserializePage of a buffer of any
\* other length returns an error.
C14_PageCodecRoundTrip ==
    [][ /\ DoSerialize => (ret'.err = NoErr /\ BLen(ret'.val) = PageSize)
        /\ (ret.op = "Serialize" /\ CallDeserializePage(ret.val))
             => ( /\ ret'.err = NoErr
                  /\ ret'.page # Nil
                  /\ ret'.page.Header = ret.page.Header
                  /\ ret'.page.Body = ret.page.Body
                  /\ ret'.page.Footer = ret.page.Footer )
        /\ \A data \in Buffers :
             (CallDeserializePage(data) /\ BLen(data) # PageSize)
             => ret'.err # NoErr ]_vars

\* C15. ReadPage and the cache: once ReadPage(id) has returned a page, the
\* cache holds an entry for id, and that entry is the page returned.
C15_ReadPagePopulatesCache ==
    (ret.op = "ReadPage" /\ ret.err = NoErr)
    => ( /\ ret.id \in DOMAIN pager.pageCache
         /\ pager.pageCache[ret.id] = ret.page )

\* C16. Dirty flag: IsDirty called on a page right after MarkDirty returns
\* true.
C16_MarkDirtyIsDirty ==
    [][ (DoIsDirty /\ ret.op = "MarkDirty") => ret'.val = TRUE ]_vars

\* C18. WAL lifecycle: an Append of an entry on an Empty WAL (no File, no
\* Writer) neither panics nor fails, creates the file and leaves the WAL
\* Open with the entry accepted; an Append on a WAL whose File is open and
\* whose file exists keeps that File; and when Flush returns nil no
\* accepted entry is left in the Writer.
C18_LazyCreation ==
    [][ /\ \A entry \in Entries \ {Nil} :
             /\ (CallAppend(entry) /\ wal = EmptyWAL)
                  => ( /\ proc' = "running"
                       /\ walRet'.err = NoErr
                       /\ walFile'.exists
                       /\ wal'.File # 0
                       /\ wal'.Writer # Nil
                       /\ appended' = Append(appended, entry) )
             /\ (CallAppend(entry) /\ wal.File # 0 /\ walFile.exists)
                  => (wal'.File = wal.File /\ walFile'.exists)
        /\ (DoFlush /\ walRet'.err = NoErr) => pending' = << >> ]_vars

\* C19. Failed read: a ReadPage call that returns an error leaves the
\* pager (its cache and every cached page, maxPages, nextPageID, its file
\* handle) and the data file exactly as they were, so that the pager
\* accepts what it accepted before.
C19_FailedReadFrame ==
    [][ (DoReadPage /\ ret'.err # NoErr)
          => (pager' = pager /\ dataFile' = dataFile) ]_vars

\* ReadPage has failed on a page slot that a crash cut short.
C19_Witness ==
    /\ ret.op = "ReadPage"
    /\ ret.err = "error reading file from offset"
    /\ ~pager.file.closed

\* The whole ENTRY_SIZE records of the WAL file.
Records == BLen(walFile.bytes) \div ENTRY_SIZE

\* C20. Replay terminates: every iteration of Replay's loop that does not
\* return has read bytes of the file (an iteration that reads nothing and
\* does not return finds the loop where it was, and is repeated without
\* end), and Replay returns no more entries than the file has whole
\* records.
C20_ReplayTerminates ==
    [][ /\ (ReplayLoop /\ replay' # Nil) => walFds' # walFds
        /\ (ReplayLoop /\ replay' = Nil) => Len(walRet'.entries) <= Records ]_vars

\* C17. Lock discipline: a goroutine about to write p.pageCache or
\* p.nextPageID holds the pager's mutex exclusively, one about to read
\* them holds it shared or exclusively, and no goroutine is about to write
\* them while another is about to read or write them.
C17_LockDiscipline ==
    /\ \A t \in Threads :
         /\ threads[t].pc \in CacheWrites => mutex.writer = t
         /\ threads[t].pc \in CacheReads => (mutex.writer = t \/ t \in mutex.readers)
    /\ \A t \in Threads : \A u \in Threads \ {t} :
         ~ ( /\ threads[t].pc \in CacheWrites
             /\ threads[u].pc \in CacheWrites \cup CacheReads )

============================================================================
